---- MODULE Spec2Model ----
(***************************************************************************)
(* The shopping cart of the tsa-api backend: the Cart model                *)
(* (models/Cart.js, src/unnamed/part_008 lines 188-762) and the request    *)
(* handlers of CartController (controllers/CartController.js,              *)
(* src/unnamed/part_004 lines 186-1196) over the Cart collection and the   *)
(* Product catalog.                                                        *)
(*                                                                         *)
(* Money is in whole dollars; catalog prices are multiples of 10, so the   *)
(* 10% tax and the percentage discounts are exact integers.  Dates are in  *)
(* hours since the start of the behaviour.  A field that is undefined in   *)
(* the document is the falsy value of its type: 0 for the numbers of a     *)
(* coupon, "" for strings, NoDate for dates.                               *)
(***************************************************************************)
EXTENDS Integers, Sequences, FiniteSets, TLC

VARIABLES
    carts,      \* the Cart collection: a set of cart documents
    products,   \* the Product collection: product id -> document
    now,        \* the clock (Date.now()), in hours
    resp,       \* the response of the request handled by the last step
    reqs,       \* the requests in flight: what each holds between its awaits
    accounts    \* the User collection: email -> document

vars == <<carts, products, now, resp, reqs, accounts>>

---------------------------------------------------------------------------
(* Bounds of the model *)

MaxItems == 2       \* line items a cart may hold
MaxLineQty == 2     \* largest quantity a line item may reach
MaxQty == 1         \* largest quantity a request carries
MaxTime == 25       \* the clock stops here
MaxRequests == 2    \* requests that can be in flight at once
MaxMonths == 1      \* expiry periods the clock can pass in one step each
MaxHours == 4       \* hours the clock can pass one at a time

(* Program constants *)

TaxPercent == 10            \* summary.tax = subtotal * 0.1
ExpireHours == 720          \* 30 * 24 * 60 * 60 * 1000 ms
AbandonHours == 24          \* hoursSinceLastActivity > 24
TickHours == 25             \* the step of the clock: just over AbandonHours
DayHours == 24              \* days * 24 * 60 * 60 * 1000 ms
LockHours == 2              \* 2 * 60 * 60 * 1000 ms
MaxLoginAttempts == 5       \* this.loginAttempts >= 5

Users == {"u1"}
Products == {"p1"}
NoDate == -1

Min(a, b) == IF a < b THEN a ELSE b
Max(a, b) == IF a > b THEN a ELSE b
MinOf(S) == CHOOSE x \in S : \A y \in S : x <= y

(* The smallest id not in use: stands for a fresh ObjectId. *)
NewId(used) == MinOf({i \in 1..(Cardinality(used) + 1) : i \notin used})

---------------------------------------------------------------------------
(* The catalog *)

InitProducts ==
    [p \in Products |->
        [exists |-> TRUE, price |-> 100, stock |-> 1, status |-> "active", userId |-> "s1"]]

(* The registered accounts.  The stored password is the bcrypt hash of the *)
(* password the account was registered with.                               *)
Emails == {"ann@tsa.io"}
Hash(password) == <<"bcrypt", password>>

InitAccounts ==
    [e \in Emails |->
        [password |-> Hash("secret1234"), loginAttempts |-> 0,
         lockUntil |-> NoDate, lastLogin |-> NoDate]]

(* Request inputs *)

QtyInputs == (-1)..MaxQty
AttrInputs == {<<>>, <<[name |-> "size", value |-> "L"]>>}
ShippingMethods == {"express"}
PaymentMethods == {"card"}
AddressInputs == {"12 Main St"}

---------------------------------------------------------------------------
(* Schema defaults *)

ZeroSummary ==
    [totalItems |-> 0, totalQuantity |-> 0, subtotal |-> 0, shipping |-> 0,
     tax |-> 0, discount |-> 0, total |-> 0]

(* appliedCoupon is a nested path: when unset its code is undefined and    *)
(* its discountType is the schema default.                                 *)
NoCoupon ==
    [code |-> "", discountType |-> "percentage", discountValue |-> 0,
     maxDiscount |-> 0, minPurchase |-> 0, expiresAt |-> 0, appliedAt |-> NoDate]

(* The mock coupon CartController.applyCoupon builds for every code. *)
MockCoupon(t) ==
    [discountType |-> "percentage", discountValue |-> 10, maxDiscount |-> 50,
     minPurchase |-> 100, expiresAt |-> t + ExpireHours]

shippingCosts(method) ==
    CASE method = "standard" -> 5
      [] method = "express" -> 12
      [] method = "next_day" -> 25
      [] method = "pickup" -> 0
      [] OTHER -> 0

---------------------------------------------------------------------------
(* Pure parts of the Cart model *)

RECURSIVE SumQuantity(_)
SumQuantity(items) ==
    IF items = <<>> THEN 0 ELSE Head(items).quantity + SumQuantity(Tail(items))

RECURSIVE SumSubtotal(_)
SumSubtotal(items) ==
    IF items = <<>> THEN 0
    ELSE Head(items).price * Head(items).quantity + SumSubtotal(Tail(items))

isEmpty(cart) == Len(cart.items) = 0

(* calculateSummary without the maxDiscount cap of a percentage coupon. *)
calculateSummaryNoCap(cart) ==
    LET subtotal == SumSubtotal(cart.items)
        tax == (subtotal * TaxPercent) \div 100
        coupon == cart.appliedCoupon
        hasCoupon == coupon.code # ""
        discount ==
            IF hasCoupon /\ coupon.discountType = "percentage"
            THEN (subtotal * coupon.discountValue) \div 100
            ELSE IF hasCoupon /\ coupon.discountType = "fixed"
            THEN Min(coupon.discountValue, subtotal)
            ELSE IF hasCoupon /\ coupon.discountType = "free_shipping"
            THEN cart.summary.shipping
            ELSE cart.summary.discount
        shipping ==
            IF hasCoupon /\ coupon.discountType = "free_shipping"
            THEN 0 ELSE cart.summary.shipping
    IN  [totalItems |-> Len(cart.items),
         totalQuantity |-> SumQuantity(cart.items),
         subtotal |-> subtotal,
         shipping |-> shipping,
         tax |-> tax,
         discount |-> discount,
         total |-> Max(0, subtotal + shipping + tax - discount)]

(* calculateSummary without the Math.max(0, ...) on the total. *)
calculateSummaryNoFloor(cart) ==
    LET subtotal == SumSubtotal(cart.items)
        tax == (subtotal * TaxPercent) \div 100
        coupon == cart.appliedCoupon
        hasCoupon == coupon.code # ""
        pct == (subtotal * coupon.discountValue) \div 100
        discount ==
            IF hasCoupon /\ coupon.discountType = "percentage"
            THEN IF coupon.maxDiscount # 0 THEN Min(pct, coupon.maxDiscount) ELSE pct
            ELSE IF hasCoupon /\ coupon.discountType = "fixed"
            THEN Min(coupon.discountValue, subtotal)
            ELSE IF hasCoupon /\ coupon.discountType = "free_shipping"
            THEN cart.summary.shipping
            ELSE cart.summary.discount
        shipping ==
            IF hasCoupon /\ coupon.discountType = "free_shipping"
            THEN 0 ELSE cart.summary.shipping
    IN  [totalItems |-> Len(cart.items),
         totalQuantity |-> SumQuantity(cart.items),
         subtotal |-> subtotal,
         shipping |-> shipping,
         tax |-> tax,
         discount |-> discount,
         total |-> subtotal + shipping + tax - discount]

calculateSummary(cart) ==
    LET subtotal == SumSubtotal(cart.items)
        shipping0 == cart.summary.shipping
        discount0 == cart.summary.discount
        tax == (subtotal * TaxPercent) \div 100
        coupon == cart.appliedCoupon
        hasCoupon == coupon.code # ""
        pct == (subtotal * coupon.discountValue) \div 100
        discount ==
            IF hasCoupon /\ coupon.discountType = "percentage"
            THEN IF coupon.maxDiscount # 0 THEN Min(pct, coupon.maxDiscount) ELSE pct
            ELSE IF hasCoupon /\ coupon.discountType = "fixed"
            THEN Min(coupon.discountValue, subtotal)
            ELSE IF hasCoupon /\ coupon.discountType = "free_shipping"
            THEN shipping0
            ELSE discount0
        shipping ==
            IF hasCoupon /\ coupon.discountType = "free_shipping" THEN 0 ELSE shipping0
    IN  [totalItems |-> Len(cart.items),
         totalQuantity |-> SumQuantity(cart.items),
         subtotal |-> subtotal,
         shipping |-> shipping,
         tax |-> tax,
         discount |-> discount,
         total |-> Max(0, subtotal + shipping + tax - discount)]

(* cartItemSchema.quantity without its min validator. *)
ValidQuantityNoMin(q) == TRUE

(* cartItemSchema: quantity has min 1, price has min 0. *)
ValidQuantity(q) == q >= 1

validate(cart) ==
    \A i \in 1..Len(cart.items) :
        ValidQuantity(cart.items[i].quantity) /\ cart.items[i].price >= 0

(* pre('save') with the expiry refreshed on every save *)
preSaveAlwaysRefresh(cart, t) ==
    LET c1 == [cart EXCEPT !.summary = calculateSummary(cart)]
        c2 == [c1 EXCEPT !.lastActivity = t]
    IN  [c2 EXCEPT !.expiresAt = t + ExpireHours]

(* cartSchema.pre('save') *)
preSave(cart, t) ==
    LET c1 == [cart EXCEPT !.summary = calculateSummary(cart)]
        c2 == [c1 EXCEPT !.lastActivity = t]
    IN  IF c2.status = "active" /\ ~isEmpty(c2)
        THEN [c2 EXCEPT !.expiresAt = t + ExpireHours]
        ELSE c2

(* document.save(): validation, then the pre-save hook, then the write.    *)
(* The result carries the in-memory document as the caller sees it.        *)
save(cart, t) ==
    IF validate(cart)
    THEN [ok |-> TRUE, error |-> "", doc |-> preSave(cart, t)]
    ELSE [ok |-> FALSE, error |-> "Quantity must be at least 1", doc |-> cart]

Thrown(cart, msg) == [ok |-> FALSE, error |-> msg, doc |-> cart]

---------------------------------------------------------------------------
(* Cart methods.  Each takes the in-memory document and gives the result   *)
(* of its final save().                                                    *)

(* JSON.stringify of an array of attribute objects: the ordered key/value  *)
(* pairs of every element.  An element of a stored document array is a     *)
(* subdocument and carries the _id it was given on insertion; an element   *)
(* of a request body carries only what the client sent.                    *)
JSONStringify(attrs) ==
    [i \in 1..Len(attrs) |->
        IF "id" \in DOMAIN attrs[i]
        THEN << <<"name", attrs[i].name>>, <<"value", attrs[i].value>>,
                <<"_id", ToString(attrs[i].id)>> >>
        ELSE << <<"name", attrs[i].name>>, <<"value", attrs[i].value>> >>]

(* Casting of pushed attributes to subdocuments: each gets an _id. *)
CastAttributes(attrs) ==
    [i \in 1..Len(attrs) |-> [name |-> attrs[i].name, value |-> attrs[i].value, id |-> i]]

(* this.items.findIndex(item => item._id.toString() === itemId).  The _id   *)
(* of a line item is unique in its cart and is never compared with         *)
(* anything but the itemId of a request, so a request names a line item by *)
(* the position the line holds when the request arrives: itemId k is the   *)
(* _id of the k-th line, and a k beyond the last line is an _id that no    *)
(* line of the cart has.                                                   *)
findIndex(cart, itemId) == {i \in 1..Len(cart.items) : i = itemId}

RemoveAt(items, i) == SubSeq(items, 1, i - 1) \o SubSeq(items, i + 1, Len(items))

addItem(cart, itemData, t) ==
    LET existing ==
            {i \in 1..Len(cart.items) :
                /\ cart.items[i].product = itemData.product
                /\ JSONStringify(cart.items[i].selectedAttributes)
                     = JSONStringify(itemData.selectedAttributes)}
        c1 == IF existing # {}
              THEN [cart EXCEPT !.items[MinOf(existing)].quantity = @ + itemData.quantity]
              ELSE [cart EXCEPT !.items = Append(@,
                        [product |-> itemData.product,
                         seller |-> itemData.seller,
                         quantity |-> itemData.quantity,
                         price |-> itemData.price,
                         selectedAttributes |-> CastAttributes(itemData.selectedAttributes)])]
        c2 == [c1 EXCEPT !.summary = calculateSummary(c1), !.lastActivity = t]
    IN  save(c2, t)

updateItemQuantity(cart, itemId, quantity, t) ==
    LET idx == findIndex(cart, itemId) IN
    IF idx = {} THEN Thrown(cart, "Item not found in cart")
    ELSE LET i == MinOf(idx)
             c1 == IF quantity < 1
                   THEN [cart EXCEPT !.items = RemoveAt(@, i)]
                   ELSE [cart EXCEPT !.items[i].quantity = quantity]
             c2 == [c1 EXCEPT !.summary = calculateSummary(c1), !.lastActivity = t]
         IN  save(c2, t)

removeItem(cart, itemId, t) ==
    LET idx == findIndex(cart, itemId)
        \* this.items.filter(item => item._id.toString() !== itemId)
        c1 == [cart EXCEPT !.items = IF idx = {} THEN @ ELSE RemoveAt(@, MinOf(idx))]
    IN
    IF Len(c1.items) = Len(cart.items) THEN Thrown(c1, "Item not found in cart")
    ELSE save([c1 EXCEPT !.summary = calculateSummary(c1), !.lastActivity = t], t)

clearCart(cart, t) ==
    LET c1 == [cart EXCEPT !.items = <<>>] IN
    save([c1 EXCEPT !.summary = calculateSummary(c1), !.lastActivity = t], t)

(* applyCoupon without its expiry test. *)
applyCouponNoExpiryTest(cart, couponCode, couponData, t) ==
    IF couponData.minPurchase # 0 /\ cart.summary.subtotal < couponData.minPurchase
    THEN Thrown(cart, "Minimum purchase required")
    ELSE LET c1 == [cart EXCEPT !.appliedCoupon =
                        [code |-> couponCode,
                         discountType |-> couponData.discountType,
                         discountValue |-> couponData.discountValue,
                         maxDiscount |-> couponData.maxDiscount,
                         minPurchase |-> couponData.minPurchase,
                         expiresAt |-> couponData.expiresAt,
                         appliedAt |-> t]]
         IN  save([c1 EXCEPT !.summary = calculateSummary(c1), !.lastActivity = t], t)

applyCoupon(cart, couponCode, couponData, t) ==
    IF couponData.expiresAt # 0 /\ couponData.expiresAt < t
    THEN Thrown(cart, "Coupon has expired")
    ELSE IF couponData.minPurchase # 0 /\ cart.summary.subtotal < couponData.minPurchase
    THEN Thrown(cart, "Minimum purchase required")
    ELSE LET c1 == [cart EXCEPT !.appliedCoupon =
                        [code |-> couponCode,
                         discountType |-> couponData.discountType,
                         discountValue |-> couponData.discountValue,
                         maxDiscount |-> couponData.maxDiscount,
                         minPurchase |-> couponData.minPurchase,
                         expiresAt |-> couponData.expiresAt,
                         appliedAt |-> t]]
         IN  save([c1 EXCEPT !.summary = calculateSummary(c1), !.lastActivity = t], t)

removeCoupon(cart, t) ==
    LET c1 == [cart EXCEPT !.appliedCoupon = NoCoupon] IN
    save([c1 EXCEPT !.summary = calculateSummary(c1), !.lastActivity = t], t)

updateShippingAddress(cart, addressData, t) ==
    save([cart EXCEPT !.shippingAddress = [address |-> addressData.address],
                      !.lastActivity = t], t)

(* addressData.given tells whether the body has a sameAsShipping key; an   *)
(* address of "" is a body without an address.                             *)
updateBillingAddress(cart, addressData, t) ==
    LET c1 == IF addressData.given
              THEN IF addressData.sameAsShipping
                   THEN [cart EXCEPT !.billingAddress =
                            [sameAsShipping |-> TRUE,
                             address |-> cart.shippingAddress.address]]
                   ELSE [cart EXCEPT !.billingAddress.sameAsShipping = FALSE]
              ELSE [cart EXCEPT !.billingAddress =
                        [sameAsShipping |-> FALSE,
                         address |-> IF addressData.address # ""
                                     THEN addressData.address ELSE @.address]]
    IN  save([c1 EXCEPT !.lastActivity = t], t)

updatePaymentMethod(cart, paymentData, t) ==
    save([cart EXCEPT !.paymentMethod = paymentData.method, !.lastActivity = t], t)

updateShippingMethod(cart, shippingData, t) ==
    LET c1 == [cart EXCEPT !.shippingMethod = shippingData.method,
                           !.summary.shipping = shippingCosts(shippingData.method)]
    IN  save([c1 EXCEPT !.summary = calculateSummary(c1), !.lastActivity = t], t)

convertToOrder(cart, t) ==
    LET c1 == [cart EXCEPT !.status = "converted", !.convertedAt = t,
                           !.lastActivity = t, !.items = <<>>]
        c2 == [c1 EXCEPT !.summary = calculateSummary(c1)]
        c3 == [c2 EXCEPT !.appliedCoupon = NoCoupon]
    IN  save(c3, t)

(* markAsAbandoned without its !this.isEmpty() test. *)
markAsAbandonedEmptyToo(cart, t) ==
    IF /\ cart.status = "active" /\ cart.lastActivity # NoDate
       /\ t - cart.lastActivity > AbandonHours
    THEN save([cart EXCEPT !.status = "abandoned", !.abandonedAt = t], t)
    ELSE [ok |-> TRUE, error |-> "", doc |-> cart]

markAsAbandoned(cart, t) ==
    IF /\ cart.status = "active" /\ ~isEmpty(cart) /\ cart.lastActivity # NoDate
       /\ t - cart.lastActivity > AbandonHours
    THEN save([cart EXCEPT !.status = "abandoned", !.abandonedAt = t], t)
    ELSE [ok |-> TRUE, error |-> "", doc |-> cart]

(* restore without this.abandonedAt = undefined. *)
restoreKeepsAbandonedAt(cart, t) ==
    IF cart.status = "abandoned"
    THEN save([cart EXCEPT !.status = "active", !.lastActivity = t], t)
    ELSE [ok |-> TRUE, error |-> "", doc |-> cart]

(* restore without its status test. *)
restoreAnyStatus(cart, t) ==
    save([cart EXCEPT !.status = "active", !.abandonedAt = NoDate, !.lastActivity = t], t)

restore(cart, t) ==
    IF cart.status = "abandoned"
    THEN save([cart EXCEPT !.status = "active", !.abandonedAt = NoDate,
                           !.lastActivity = t], t)
    ELSE [ok |-> TRUE, error |-> "", doc |-> cart]

---------------------------------------------------------------------------
(* The collection *)

(* Cart.findOne({ user, status: 'active' }) *)
findOneActive(store, u) == {c \in store : c.user = u /\ c.status = "active"}

(* The write of a saved document: the stored document of that _id is       *)
(* replaced.                                                               *)
Write(store, doc) == {c \in store : c.id # doc.id} \cup {doc}

NewCart(store, u, t) ==
    [id |-> NewId({c.id : c \in store}),
     user |-> u,
     items |-> <<>>,
     summary |-> ZeroSummary,
     shippingAddress |-> [address |-> ""],
     billingAddress |-> [sameAsShipping |-> TRUE, address |-> ""],
     paymentMethod |-> "card",
     appliedCoupon |-> NoCoupon,
     shippingMethod |-> "standard",
     status |-> "active",
     lastActivity |-> t,
     abandonedAt |-> NoDate,
     convertedAt |-> NoDate,
     expiresAt |-> t + ExpireHours]

(* Cart.create({ user, items: [], summary: zeros }): the unique index on   *)
(* user rejects a second document of the same user, whatever its status.   *)
(* The collection without its unique index on user. *)
UserIsUniqueNoIndex(store, u) == TRUE

UserIsUnique(store, u) == \A c \in store : c.user # u

CartCreate(store, u, t) ==
    LET fresh == NewCart(store, u, t) IN
    IF ~UserIsUnique(store, u)
    THEN [ok |-> FALSE, error |-> "E11000 duplicate key error", doc |-> fresh, store |-> store]
    ELSE LET s == save(fresh, t) IN
         [ok |-> s.ok, error |-> s.error, doc |-> s.doc,
          store |-> IF s.ok THEN store \cup {s.doc} ELSE store]

WithinBounds(store) ==
    \A c \in store :
        /\ Len(c.items) <= MaxItems
        /\ \A i \in 1..Len(c.items) : c.items[i].quantity <= MaxLineQty

---------------------------------------------------------------------------
(* Responses *)

NoData == [none |-> TRUE]
NoResp == [op |-> "none", user |-> "", code |-> 0, message |-> "", data |-> NoData]

Response(op, u, code, message, data) ==
    [op |-> op, user |-> u, code |-> code, message |-> message, data |-> data]

(* Cart.findById(cart._id) after the method call *)
Reload(store, id) == CHOOSE c \in store : c.id = id

---------------------------------------------------------------------------
(* Initial state: empty Cart collection, the catalog as seeded. *)

(* A request slot with no request in it. *)
Requests == 1..MaxRequests
Idle == [op |-> "none", user |-> "", pc |-> "idle", args |-> NoData, cart |-> NoData]

Init ==
    /\ carts = {}
    /\ products = InitProducts
    /\ now = 0
    /\ resp = NoResp
    /\ reqs = [r \in Requests |-> Idle]
    /\ accounts = InitAccounts

---------------------------------------------------------------------------
(* Request handlers of CartController.  Each step is one request of user   *)
(* u, from the lookup of the cart to the response.  The outcome of a       *)
(* handler is the collection it leaves and the response it sends.          *)

Out(store, r) == [store |-> store, resp |-> r]

(* parseInt(quantity) of a quantity sent as a JSON number or as a string   *)
(* of digits.                                                              *)
parseInt(quantity) == quantity.n

(* !quantity: the number 0 is falsy, the string "0" is not. *)
Falsy(quantity) == ~quantity.str /\ quantity.n = 0

(* The tail shared by the handlers: the collection after the method call   *)
(* and the response, which carries the reloaded cart on success.           *)
Answer(op, u, okMessage, store, cart, r) ==
    IF r.ok
    THEN Out(Write(store, r.doc),
             Response(op, u, 200, okMessage, Reload(Write(store, r.doc), cart.id)))
    ELSE Out(store, Response(op, u, 500, r.error, NoData))

getOrCreateCart(u) ==
    LET found == findOneActive(carts, u) IN
    IF found # {}
    THEN Out(carts, Response("getOrCreateCart", u, 200, "Cart retrieved successfully",
                             CHOOSE c \in found : TRUE))
    ELSE LET r == CartCreate(carts, u, now) IN
         IF r.ok
         THEN Out(r.store, Response("getOrCreateCart", u, 200,
                                    "Cart retrieved successfully", r.doc))
         ELSE Out(carts, Response("getOrCreateCart", u, 500, r.error, NoData))

GetOrCreateCart(u) ==
    LET out == getOrCreateCart(u) IN
    /\ carts' = out.store
    /\ resp' = out.resp
    /\ UNCHANGED <<accounts, products, now, reqs>>

addToCart(u, productId, quantity, selectedAttributes) ==
    LET product == products[productId]
        found == findOneActive(carts, u)
    IN
    IF ~product.exists
    THEN Out(carts, Response("addToCart", u, 404, "Product not found", NoData))
    ELSE IF product.stock < quantity.n
    THEN Out(carts, Response("addToCart", u, 400, "Only N items available in stock", NoData))
    ELSE IF product.status # "active"
    THEN Out(carts, Response("addToCart", u, 400,
                             "Product is not available for purchase", NoData))
    ELSE LET created == CartCreate(carts, u, now) IN
         IF found = {} /\ ~created.ok
         THEN Out(carts, Response("addToCart", u, 500, created.error, NoData))
         ELSE LET cart == IF found # {} THEN CHOOSE c \in found : TRUE ELSE created.doc
                  store == IF found # {} THEN carts ELSE created.store
              IN  Answer("addToCart", u, "Item added to cart successfully", store, cart,
                         addItem(cart,
                                 [product |-> productId,
                                  seller |-> product.userId,
                                  quantity |-> parseInt(quantity),
                                  price |-> product.price,
                                  selectedAttributes |-> selectedAttributes], now))

AddToCart(u, productId, quantity, selectedAttributes) ==
    LET out == addToCart(u, productId, quantity, selectedAttributes) IN
    /\ WithinBounds(out.store)
    /\ carts' = out.store
    /\ resp' = out.resp
    /\ UNCHANGED <<accounts, products, now, reqs>>

updateCartItem(u, itemId, quantity) ==
    LET found == findOneActive(carts, u) IN
    IF Falsy(quantity) \/ quantity.n < 0
    THEN Out(carts, Response("updateCartItem", u, 400, "Valid quantity is required", NoData))
    ELSE IF found = {}
    THEN Out(carts, Response("updateCartItem", u, 404, "Cart not found", NoData))
    ELSE LET cart == CHOOSE c \in found : TRUE IN
         IF findIndex(cart, itemId) = {}
         THEN Out(carts, Response("updateCartItem", u, 404, "Item not found in cart", NoData))
         ELSE LET product == products[cart.items[MinOf(findIndex(cart, itemId))].product] IN
              IF ~product.exists
              THEN Out(carts, Response("updateCartItem", u, 404, "Product not found", NoData))
              ELSE IF quantity.n > product.stock
              THEN Out(carts, Response("updateCartItem", u, 400,
                                       "Only N items available in stock", NoData))
              ELSE Answer("updateCartItem", u, "Cart updated successfully", carts, cart,
                          updateItemQuantity(cart, itemId, parseInt(quantity), now))

UpdateCartItem(u, itemId, quantity) ==
    LET out == updateCartItem(u, itemId, quantity) IN
    /\ carts' = out.store
    /\ resp' = out.resp
    /\ UNCHANGED <<accounts, products, now, reqs>>

RemoveFromCart(u, itemId) ==
    LET found == findOneActive(carts, u)
        out == IF found = {}
               THEN Out(carts, Response("removeFromCart", u, 404, "Cart not found", NoData))
               ELSE LET cart == CHOOSE c \in found : TRUE IN
                    Answer("removeFromCart", u, "Item removed from cart successfully",
                           carts, cart, removeItem(cart, itemId, now))
    IN
    /\ carts' = out.store
    /\ resp' = out.resp
    /\ UNCHANGED <<accounts, products, now, reqs>>

(* The response of clearCart is a literal: empty items, all-zero summary. *)
ClearCart(u) ==
    LET found == findOneActive(carts, u)
        out == IF found = {}
               THEN Out(carts, Response("clearCart", u, 404, "Cart not found", NoData))
               ELSE LET r == clearCart(CHOOSE c \in found : TRUE, now) IN
                    IF r.ok
                    THEN Out(Write(carts, r.doc),
                             Response("clearCart", u, 200, "Cart cleared successfully",
                                      [items |-> <<>>, summary |-> ZeroSummary]))
                    ELSE Out(carts, Response("clearCart", u, 500, r.error, NoData))
    IN
    /\ carts' = out.store
    /\ resp' = out.resp
    /\ UNCHANGED <<accounts, products, now, reqs>>

ApplyCoupon(u, couponCode) ==
    LET found == findOneActive(carts, u)
        couponData == MockCoupon(now)
        out == IF found = {}
               THEN Out(carts, Response("applyCoupon", u, 404, "Cart not found", NoData))
               ELSE LET cart == CHOOSE c \in found : TRUE IN
                    IF isEmpty(cart)
                    THEN Out(carts, Response("applyCoupon", u, 400,
                                             "Cannot apply coupon to empty cart", NoData))
                    ELSE IF cart.summary.subtotal < couponData.minPurchase
                    THEN Out(carts, Response("applyCoupon", u, 400,
                                             "Minimum purchase required for this coupon", NoData))
                    ELSE Answer("applyCoupon", u, "Coupon applied successfully", carts, cart,
                                applyCoupon(cart, couponCode, couponData, now))
    IN
    /\ carts' = out.store
    /\ resp' = out.resp
    /\ UNCHANGED <<accounts, products, now, reqs>>

RemoveCoupon(u) ==
    LET found == findOneActive(carts, u)
        out == IF found = {}
               THEN Out(carts, Response("removeCoupon", u, 404, "Cart not found", NoData))
               ELSE LET cart == CHOOSE c \in found : TRUE IN
                    Answer("removeCoupon", u, "Coupon removed successfully", carts, cart,
                           removeCoupon(cart, now))
    IN
    /\ carts' = out.store
    /\ resp' = out.resp
    /\ UNCHANGED <<accounts, products, now, reqs>>

UpdateShippingAddress(u, addressData) ==
    LET found == findOneActive(carts, u)
        out == IF addressData.address = ""
               THEN Out(carts, Response("updateShippingAddress", u, 400,
                                        "Missing required address fields", NoData))
               ELSE IF found = {}
               THEN Out(carts, Response("updateShippingAddress", u, 404,
                                        "Cart not found", NoData))
               ELSE LET cart == CHOOSE c \in found : TRUE IN
                    Answer("updateShippingAddress", u, "Shipping address updated successfully",
                           carts, cart, updateShippingAddress(cart, addressData, now))
    IN
    /\ carts' = out.store
    /\ resp' = out.resp
    /\ UNCHANGED <<accounts, products, now, reqs>>

UpdateShippingMethod(u, method) ==
    LET found == findOneActive(carts, u)
        out == IF method \notin {"standard", "express", "next_day", "pickup"}
               THEN Out(carts, Response("updateShippingMethod", u, 400,
                                        "Valid shipping method is required", NoData))
               ELSE IF found = {}
               THEN Out(carts, Response("updateShippingMethod", u, 404,
                                        "Cart not found", NoData))
               ELSE LET cart == CHOOSE c \in found : TRUE IN
                    Answer("updateShippingMethod", u, "Shipping method updated successfully",
                           carts, cart, updateShippingMethod(cart, [method |-> method], now))
    IN
    /\ carts' = out.store
    /\ resp' = out.resp
    /\ UNCHANGED <<accounts, products, now, reqs>>

UpdatePaymentMethod(u, method) ==
    LET found == findOneActive(carts, u)
        out == IF method \notin {"card", "bank_transfer", "wallet", "cash_on_delivery", "crypto"}
               THEN Out(carts, Response("updatePaymentMethod", u, 400,
                                        "Valid payment method is required", NoData))
               ELSE IF found = {}
               THEN Out(carts, Response("updatePaymentMethod", u, 404,
                                        "Cart not found", NoData))
               ELSE LET cart == CHOOSE c \in found : TRUE IN
                    Answer("updatePaymentMethod", u, "Payment method updated successfully",
                           carts, cart, updatePaymentMethod(cart, [method |-> method], now))
    IN
    /\ carts' = out.store
    /\ resp' = out.resp
    /\ UNCHANGED <<accounts, products, now, reqs>>

(* The line items whose product is gone or short of stock. *)
Unavailable(cart) ==
    {i \in 1..Len(cart.items) :
        \/ ~products[cart.items[i].product].exists
        \/ products[cart.items[i].product].stock < cart.items[i].quantity}

(* The availability loop without its stock comparison. *)
AllAvailableStockUnchecked(cart) ==
    \A i \in 1..Len(cart.items) : products[cart.items[i].product].exists

(* The availability loop of the checkout handler: TRUE when it returns no  *)
(* 400 for any line item.                                                  *)
AllAvailable(cart) == Unavailable(cart) = {}

(* CartController.convertToOrder.  The response is built from the          *)
(* in-memory document after cart.convertToOrder() has resolved.            *)
checkout(u) ==
    LET found == findOneActive(carts, u) IN
    IF found = {}
    THEN Out(carts, Response("convertToOrder", u, 404, "Cart not found", NoData))
    ELSE LET cart == CHOOSE c \in found : TRUE IN
         IF isEmpty(cart)
         THEN Out(carts, Response("convertToOrder", u, 400,
                                  "Cannot convert empty cart to order", NoData))
         ELSE IF cart.shippingAddress.address = ""
         THEN Out(carts, Response("convertToOrder", u, 400,
                                  "Shipping address is required", NoData))
         ELSE IF cart.paymentMethod = ""
         THEN Out(carts, Response("convertToOrder", u, 400,
                                  "Payment method is required", NoData))
         ELSE IF ~AllAvailable(cart)
         THEN Out(carts, Response("convertToOrder", u, 400,
                    IF products[cart.items[MinOf(Unavailable(cart))].product].exists
                    THEN "Only N items available" ELSE "Product is no longer available",
                    NoData))
         ELSE LET r == convertToOrder(cart, now) IN
              IF r.ok
              THEN Out(Write(carts, r.doc),
                       Response("convertToOrder", u, 200, "Order created successfully",
                                [cartId |-> r.doc.id,
                                 summary |-> r.doc.summary,
                                 items |-> r.doc.items,
                                 shippingAddress |-> r.doc.shippingAddress,
                                 paymentMethod |-> r.doc.paymentMethod,
                                 shippingMethod |-> r.doc.shippingMethod]))
              ELSE Out(carts, Response("convertToOrder", u, 500, r.error, NoData))

ConvertToOrder(u) ==
    LET out == checkout(u) IN
    /\ carts' = out.store
    /\ resp' = out.resp
    /\ UNCHANGED <<accounts, products, now, reqs>>

RestoreCart(u, cartId) ==
    LET found == {c \in carts : c.id = cartId /\ c.user = u /\ c.status = "abandoned"}
        out == IF found = {}
               THEN Out(carts, Response("restoreCart", u, 404,
                                        "Abandoned cart not found", NoData))
               ELSE LET cart == CHOOSE c \in found : TRUE IN
                    Answer("restoreCart", u, "Cart restored successfully", carts, cart,
                           restore(cart, now))
    IN
    /\ carts' = out.store
    /\ resp' = out.resp
    /\ UNCHANGED <<accounts, products, now, reqs>>

(* The filter of Cart.cleanupExpiredCarts without status: { $ne: 'converted' }. *)
ExpiredAnyStatus(c) == c.expiresAt < now

(* Cart.findAbandonedCarts(days): find({ status: 'abandoned',              *)
(* lastActivity: { $lt: cutoffDate } }) at time t                          *)
findAbandonedCarts(store, days, t) ==
    {c \in store : c.status = "abandoned" /\ c.lastActivity < t - days * DayHours}

(* Cart.cleanupExpiredCarts: deleteMany({ expiresAt: { $lt: new Date() },  *)
(* status: { $ne: 'converted' } })                                         *)
Expired(c) == c.expiresAt < now /\ c.status # "converted"

(* CartController.cleanupExpiredCarts, called by a user of that role. *)
CleanupExpiredCarts(role) ==
    /\ IF role # "admin" /\ role # "super_admin"
       THEN /\ carts' = carts
            /\ resp' = Response("cleanupExpiredCarts", role, 403,
                                "Access denied. Admin privileges required.", NoData)
       ELSE /\ carts' = {c \in carts : ~Expired(c)}
            /\ resp' = Response("cleanupExpiredCarts", role, 200,
                                "Expired carts cleaned up successfully",
                                [deletedCount |-> Cardinality({c \in carts : Expired(c)})])
    /\ UNCHANGED <<accounts, products, now, reqs>>

---------------------------------------------------------------------------
(* Direct calls of Cart methods that no handler reaches with these         *)
(* arguments.  resp.code is 200 when the returned promise resolves and     *)
(* 500 when it rejects.                                                    *)

(* The couponData of a direct call, by discount type. *)
CouponTypes == {"percentage", "free_shipping"}

CouponOfType(type, t) ==
    IF type = "percentage" THEN MockCoupon(t)
    ELSE [discountType |-> type, discountValue |-> 0, maxDiscount |-> 0,
          minPurchase |-> 0, expiresAt |-> 0]

(* cart.applyCoupon(code, couponData) on the user's active cart. *)
CallApplyCoupon(u, couponCode, type) ==
    LET found == findOneActive(carts, u)
        cart == CHOOSE c \in found : TRUE
        out == Answer("cart.applyCoupon", u, "", carts, cart,
                      applyCoupon(cart, couponCode, CouponOfType(type, now), now))
    IN
    /\ found # {}
    /\ carts' = out.store
    /\ resp' = out.resp
    /\ UNCHANGED <<accounts, products, now, reqs>>

(* cart.markAsAbandoned() on a stored cart. *)
CallMarkAsAbandoned(cartId) ==
    /\ \E cart \in carts :
        /\ cart.id = cartId
        /\ LET r == markAsAbandoned(cart, now) IN
            /\ carts' = (IF r.ok THEN Write(carts, r.doc) ELSE carts)
            /\ resp' = Response("cart.markAsAbandoned", cart.user,
                                IF r.ok THEN 200 ELSE 500, r.error, NoData)
    /\ UNCHANGED <<accounts, products, now, reqs>>

(* cart.restore() on a stored cart. *)
CallRestore(cartId) ==
    /\ \E cart \in carts :
        /\ cart.id = cartId
        /\ LET r == restore(cart, now) IN
            /\ carts' = (IF r.ok THEN Write(carts, r.doc) ELSE carts)
            /\ resp' = Response("cart.restore", cart.user,
                                IF r.ok THEN 200 ELSE 500, r.error, NoData)
    /\ UNCHANGED <<accounts, products, now, reqs>>

(* Time passes. *)
Tick ==
    /\ now + TickHours <= MaxTime
    /\ now' = now + TickHours
    /\ resp' = NoResp
    /\ UNCHANGED <<accounts, carts, products, reqs>>

---------------------------------------------------------------------------

CouponCodes == {"SAVE10"}
Roles == {"user", "admin"}         \* req.user.role
CartIds == 1..Cardinality(Users)
ItemIdInputs == 1..MaxItems     \* the itemId of a request: see findIndex

QuantityInputs ==
    {[n |-> q, str |-> FALSE] : q \in QtyInputs} \cup {[n |-> 0, str |-> TRUE]}

Next ==
    \/ \E u \in Users : GetOrCreateCart(u)
    \/ \E u \in Users, p \in Products, q \in QuantityInputs, a \in AttrInputs :
            AddToCart(u, p, q, a)
    \/ \E u \in Users, i \in ItemIdInputs, q \in QuantityInputs : UpdateCartItem(u, i, q)
    \/ \E u \in Users, i \in ItemIdInputs : RemoveFromCart(u, i)
    \/ \E u \in Users : ClearCart(u)
    \/ \E u \in Users, code \in CouponCodes : ApplyCoupon(u, code)
    \/ \E u \in Users : RemoveCoupon(u)
    \/ \E u \in Users, a \in AddressInputs : UpdateShippingAddress(u, [address |-> a])
    \/ \E u \in Users, m \in ShippingMethods : UpdateShippingMethod(u, m)
    \/ \E u \in Users, m \in PaymentMethods : UpdatePaymentMethod(u, m)
    \/ \E u \in Users : ConvertToOrder(u)
    \/ \E u \in Users, id \in CartIds : RestoreCart(u, id)
    \/ \E role \in Roles : CleanupExpiredCarts(role)
    \/ \E u \in Users, code \in CouponCodes, type \in CouponTypes :
            CallApplyCoupon(u, code, type)
    \/ \E id \in CartIds : CallMarkAsAbandoned(id)
    \/ \E id \in CartIds : CallRestore(id)
    \/ Tick

Spec == Init /\ [][Next]_vars

---------------------------------------------------------------------------
(* The catalog changes under the cart: the seller's product handlers       *)
(* (controllers/productController.js).                                     *)

StockInputs == 1..MaxLineQty

(* ProductController.updateStock: product.stock = parseInt(quantity) *)
UpdateStock(productId, quantity) ==
    /\ products[productId].exists
    /\ products' = [products EXCEPT ![productId].stock = quantity]
    /\ resp' = Response("updateStock", products[productId].userId, 200,
                        "Stock updated successfully", [stock |-> quantity])
    /\ UNCHANGED <<accounts, carts, now, reqs>>

(* ProductController.deleteProduct: Product.findByIdAndDelete(productId) *)
DeleteProduct(productId) ==
    /\ products[productId].exists
    /\ products' = [products EXCEPT ![productId].exists = FALSE]
    /\ resp' = Response("deleteProduct", products[productId].userId, 200,
                        "Product deleted successfully", NoData)
    /\ UNCHANGED <<accounts, carts, now, reqs>>

(* item.product of a cart loaded without populate('items.product'): the    *)
(* ObjectId of the product.  Its _id is itself; it has no stock, status or *)
(* price, which read as undefined.                                         *)
ItemProduct(item) == [_id |-> item.product, populated |-> FALSE]

(* The issues validateCart finds for one line.  undefined < n is false;    *)
(* undefined !== 'active' and n !== undefined are true.                    *)
ItemIssues(item) ==
    LET product == ItemProduct(item) IN
    (IF product.populated /\ products[product._id].stock < item.quantity
     THEN {"insufficient_stock"} ELSE {})
    \cup (IF ~product.populated \/ products[product._id].status # "active"
          THEN {"product_inactive"} ELSE {})
    \cup (IF ~product.populated \/ item.price # products[product._id].price
          THEN {"price_changed"} ELSE {})

(* CartController.validateCart *)
ValidateCart(u) ==
    LET found == findOneActive(carts, u)
        cart == CHOOSE c \in found : TRUE
        issues == {[item |-> i, issue |-> x] :
                        i \in 1..Len(cart.items), x \in {"insufficient_stock",
                                                         "product_inactive",
                                                         "price_changed"}}
        found_issues == {e \in issues : e.issue \in ItemIssues(cart.items[e.item])}
    IN
    /\ resp' = IF found = {}
               THEN Response("validateCart", u, 404, "Cart not found", NoData)
               ELSE IF isEmpty(cart)
               THEN Response("validateCart", u, 200, "Cart is empty",
                             [valid |-> TRUE, issues |-> {}])
               ELSE Response("validateCart", u, 200,
                             IF found_issues = {} THEN "Cart is valid"
                             ELSE "Cart validation issues found",
                             [valid |-> found_issues = {}, issues |-> found_issues])
    /\ UNCHANGED <<accounts, carts, products, now, reqs>>

(* Carts filled and checked out while the catalog changes. *)
NextCatalog ==
    \/ \E u \in Users : GetOrCreateCart(u)
    \/ \E u \in Users, p \in Products, q \in QuantityInputs, a \in AttrInputs :
            AddToCart(u, p, q, a)
    \/ \E u \in Users, i \in ItemIdInputs, q \in QuantityInputs : UpdateCartItem(u, i, q)
    \/ \E u \in Users, i \in ItemIdInputs : RemoveFromCart(u, i)
    \/ \E u \in Users, a \in AddressInputs : UpdateShippingAddress(u, [address |-> a])
    \/ \E u \in Users, m \in PaymentMethods : UpdatePaymentMethod(u, m)
    \/ \E u \in Users : ConvertToOrder(u)
    \/ \E p \in Products, q \in StockInputs : UpdateStock(p, q)
    \/ \E p \in Products : DeleteProduct(p)
    \/ \E u \in Users : ValidateCart(u)

SpecCatalog == Init /\ [][NextCatalog]_vars

---------------------------------------------------------------------------
(* The addresses of a cart: PUT /shipping-address and PUT /billing-address *)
(* in any order on a cart that is new or has items.                        *)

UpdateBillingAddress(u, addressData) ==
    LET found == findOneActive(carts, u)
        out == IF found = {}
               THEN Out(carts, Response("updateBillingAddress", u, 404,
                                        "Cart not found", NoData))
               ELSE LET cart == CHOOSE c \in found : TRUE IN
                    Answer("updateBillingAddress", u, "Billing address updated successfully",
                           carts, cart, updateBillingAddress(cart, addressData, now))
    IN
    /\ carts' = out.store
    /\ resp' = out.resp
    /\ UNCHANGED <<accounts, products, now, reqs>>

(* A request quantity of 1, sent as a number. *)
One == [n |-> 1, str |-> FALSE]

ShippingInputs == {"", "12 Main St", "7 Dock Rd"}
BillingInputs ==
    [given : BOOLEAN, sameAsShipping : BOOLEAN, address : {"", "3 Bank Sq"}]

NextAddresses ==
    \/ \E u \in Users : GetOrCreateCart(u)
    \/ \E u \in Users, p \in Products : AddToCart(u, p, One, <<>>)
    \/ \E u \in Users, a \in ShippingInputs : UpdateShippingAddress(u, [address |-> a])
    \/ \E u \in Users, b \in BillingInputs : UpdateBillingAddress(u, b)

SpecAddresses == Init /\ [][NextAddresses]_vars

----------------------------------------------------------------------------
(* The lifecycle of the carts of two users over the expiry period: carts   *)
(* are filled, checked out, abandoned, restored and cleaned up while the   *)
(* clock passes their expiresAt.                                           *)

LifecycleUsers == Users \cup {"u2"}
LifecycleCartIds == 1..Cardinality(LifecycleUsers)

(* The clock passes a whole expiry period and an hour. *)
TickMonth ==
    /\ now < MaxMonths * (ExpireHours + 1)
    /\ now' = now + ExpireHours + 1
    /\ resp' = NoResp
    /\ UNCHANGED <<accounts, carts, products, reqs>>

NextLifecycle ==
    \/ \E u \in LifecycleUsers : GetOrCreateCart(u)
    \/ \E u \in LifecycleUsers, p \in Products : AddToCart(u, p, One, <<>>)
    \/ \E u \in LifecycleUsers, a \in AddressInputs :
            UpdateShippingAddress(u, [address |-> a])
    \/ \E u \in LifecycleUsers : ConvertToOrder(u)
    \/ \E id \in LifecycleCartIds : CallMarkAsAbandoned(id)
    \/ \E id \in LifecycleCartIds : CallRestore(id)
    \/ \E u \in LifecycleUsers, id \in LifecycleCartIds : RestoreCart(u, id)
    \/ \E role \in Roles : CleanupExpiredCarts(role)
    \/ TickMonth

SpecLifecycle == Init /\ [][NextLifecycle]_vars

---------------------------------------------------------------------------
(* Coupons of every discount type, with and without a cap, a minimum       *)
(* purchase and an expiry date, applied to carts of changing subtotal.     *)

(* The couponData of a direct call.  The last one expires after 24 hours. *)
CouponInputs ==
    {[discountType |-> "percentage", discountValue |-> 50, maxDiscount |-> 20,
      minPurchase |-> 0, expiresAt |-> 0],
     [discountType |-> "percentage", discountValue |-> 10, maxDiscount |-> 0,
      minPurchase |-> 200, expiresAt |-> 0],
     [discountType |-> "fixed", discountValue |-> 150, maxDiscount |-> 0,
      minPurchase |-> 0, expiresAt |-> AbandonHours]}

(* cart.applyCoupon(code, couponData) on the user's active cart. *)
CallApplyCouponWith(u, couponCode, couponData) ==
    LET found == findOneActive(carts, u)
        cart == CHOOSE c \in found : TRUE
        out == Answer("cart.applyCoupon", u, "", carts, cart,
                      applyCoupon(cart, couponCode, couponData, now))
    IN
    /\ found # {}
    /\ carts' = out.store
    /\ resp' = out.resp
    /\ UNCHANGED <<accounts, products, now, reqs>>

NextCoupons ==
    \/ \E u \in Users : GetOrCreateCart(u)
    \/ \E u \in Users, p \in Products : AddToCart(u, p, One, <<>>)
    \/ \E u \in Users, i \in ItemIdInputs : RemoveFromCart(u, i)
    \/ \E u \in Users, m \in ShippingMethods : UpdateShippingMethod(u, m)
    \/ \E u \in Users, code \in CouponCodes : ApplyCoupon(u, code)
    \/ \E u \in Users, code \in CouponCodes, couponData \in CouponInputs :
            CallApplyCouponWith(u, code, couponData)
    \/ \E u \in Users : RemoveCoupon(u)
    \/ Tick

SpecCoupons == Init /\ [][NextCoupons]_vars

---------------------------------------------------------------------------
(* Concurrent requests.  A handler is an async function: between two of    *)
(* its awaits other requests run.  Each step below is one database         *)
(* operation of a request together with the synchronous code that follows  *)
(* it up to the next await; reqs[r] is what the request holds in memory    *)
(* between the two.                                                        *)

Hold(r, op, u, pc, args, cart) ==
    [reqs EXCEPT ![r] = [op |-> op, user |-> u, pc |-> pc, args |-> args, cart |-> cart]]

Done(r) == [reqs EXCEPT ![r] = Idle]

(* getOrCreateCart up to its first await. *)
StartGetOrCreateCart(r, u) ==
    /\ reqs[r].pc = "idle"
    /\ reqs' = Hold(r, "getOrCreateCart", u, "findOne", NoData, NoData)
    /\ UNCHANGED <<accounts, carts, products, now, resp>>

(* addToCart up to Cart.findOne: the product lookup and its checks. *)
StartAddToCart(r, u, productId, quantity, selectedAttributes) ==
    LET product == products[productId]
        refusal ==
            IF ~product.exists
            THEN Response("addToCart", u, 404, "Product not found", NoData)
            ELSE IF product.stock < quantity.n
            THEN Response("addToCart", u, 400, "Only N items available in stock", NoData)
            ELSE IF product.status # "active"
            THEN Response("addToCart", u, 400, "Product is not available for purchase", NoData)
            ELSE NoResp
        itemData == [product |-> productId,
                     seller |-> product.userId,
                     quantity |-> parseInt(quantity),
                     price |-> product.price,
                     selectedAttributes |-> selectedAttributes]
    IN
    /\ reqs[r].pc = "idle"
    /\ resp' = (IF refusal # NoResp THEN refusal ELSE resp)
    /\ reqs' = (IF refusal # NoResp THEN reqs
                ELSE Hold(r, "addToCart", u, "findOne", itemData, NoData))
    /\ UNCHANGED <<accounts, carts, products, now>>

(* await Cart.findOne({ user, status: 'active' }) resolves. *)
AwaitFindOne(r) ==
    LET u == reqs[r].user
        found == findOneActive(carts, u)
        cart == CHOOSE c \in found : TRUE
    IN
    /\ reqs[r].pc = "findOne"
    /\ IF found = {}
       THEN /\ reqs' = [reqs EXCEPT ![r].pc = "create"]
            /\ UNCHANGED resp
       ELSE IF reqs[r].op = "getOrCreateCart"
       THEN /\ resp' = Response("getOrCreateCart", u, 200, "Cart retrieved successfully", cart)
            /\ reqs' = Done(r)
       ELSE /\ reqs' = [reqs EXCEPT ![r].pc = "save", ![r].cart = cart]
            /\ UNCHANGED resp
    /\ UNCHANGED <<accounts, carts, products, now>>

(* await Cart.create({...}) resolves or rejects. *)
AwaitCreate(r) ==
    LET u == reqs[r].user
        created == CartCreate(carts, u, now)
    IN
    /\ reqs[r].pc = "create"
    /\ carts' = created.store
    /\ IF ~created.ok
       THEN /\ resp' = Response(reqs[r].op, u, 500, created.error, NoData)
            /\ reqs' = Done(r)
       ELSE IF reqs[r].op = "getOrCreateCart"
       THEN /\ resp' = Response("getOrCreateCart", u, 200,
                                "Cart retrieved successfully", created.doc)
            /\ reqs' = Done(r)
       ELSE /\ reqs' = [reqs EXCEPT ![r].pc = "save", ![r].cart = created.doc]
            /\ UNCHANGED resp
    /\ UNCHANGED <<accounts, products, now>>

(* The version key __v of a stored cart.  save() increments it with every  *)
(* update that moves array positions; the racing requests only push onto   *)
(* items, so it is the number of lines.                                    *)
versionKey(cart) == Len(cart.items)

(* save() of a loaded document as a replacement of the stored document *)
saveLoadedWholeDocument(store, loaded, doc) ==
    [ok |-> TRUE, error |-> "", store |-> Write(store, doc)]

(* save() of a document loaded earlier and changed to doc by addItem.  The *)
(* update carries the paths the request modified, not the document: a      *)
(* pushed line goes as $push onto the stored array, a changed quantity as  *)
(* $set of items.i.quantity conditioned on the version key the document    *)
(* was loaded with, and summary, lastActivity and expiresAt as $set.       *)
saveLoaded(store, loaded, doc) ==
    LET stored == Reload(store, loaded.id)
        pushed == Len(doc.items) > Len(loaded.items)
        changed == {i \in 1..Len(loaded.items) : doc.items[i] # loaded.items[i]}
        items == IF pushed
                 THEN Append(stored.items, doc.items[Len(doc.items)])
                 ELSE IF changed = {}
                 THEN stored.items
                 ELSE [stored.items EXCEPT ![MinOf(changed)].quantity =
                                               doc.items[MinOf(changed)].quantity]
    IN  IF changed # {} /\ versionKey(stored) # versionKey(loaded)
        THEN [ok |-> FALSE, error |-> "No matching document found", store |-> store]
        ELSE [ok |-> TRUE, error |-> "",
              store |-> Write(store,
                  [stored EXCEPT !.items = items,
                                 !.summary = doc.summary,
                                 !.lastActivity = doc.lastActivity,
                                 !.expiresAt = IF doc.expiresAt # loaded.expiresAt
                                               THEN doc.expiresAt ELSE @])]

(* await cart.addItem({...}) on the document the request holds: the        *)
(* in-memory change and the write of its save().                           *)
AwaitSave(r) ==
    LET saved == addItem(reqs[r].cart, reqs[r].args, now)
        written == saveLoaded(carts, reqs[r].cart, saved.doc)
    IN
    /\ reqs[r].pc = "save"
    /\ IF saved.ok /\ written.ok
       THEN /\ carts' = written.store
            /\ reqs' = [reqs EXCEPT ![r].pc = "findById", ![r].cart = saved.doc]
            /\ UNCHANGED resp
       ELSE /\ resp' = Response("addToCart", reqs[r].user, 500,
                                IF saved.ok THEN written.error ELSE saved.error, NoData)
            /\ reqs' = Done(r)
            /\ UNCHANGED carts
    /\ WithinBounds(carts')
    /\ UNCHANGED <<accounts, products, now>>

(* await Cart.findById(cart._id) resolves and the response is sent. *)
AwaitFindById(r) ==
    /\ reqs[r].pc = "findById"
    /\ resp' = Response("addToCart", reqs[r].user, 200, "Item added to cart successfully",
                        Reload(carts, reqs[r].cart.id))
    /\ reqs' = Done(r)
    /\ UNCHANGED <<accounts, carts, products, now>>

(* The add-item requests that race: quantities within and beyond the      *)
(* stock, no attributes.                                                   *)
RacingQuantities == {[n |-> q, str |-> FALSE] : q \in 1..(MaxQty + 1)}

NextConcurrent ==
    \/ \E r \in Requests, u \in Users : StartGetOrCreateCart(r, u)
    \/ \E r \in Requests, u \in Users, p \in Products, q \in RacingQuantities :
            StartAddToCart(r, u, p, q, <<>>)
    \/ \E r \in Requests : AwaitFindOne(r)
    \/ \E r \in Requests : AwaitCreate(r)
    \/ \E r \in Requests : AwaitSave(r)
    \/ \E r \in Requests : AwaitFindById(r)

SpecConcurrent == Init /\ [][NextConcurrent]_vars

(* Add-item requests for two products racing on one user's cart. *)
RaceProducts == {"p1", "p2"}

InitRace ==
    /\ carts = {}
    /\ products = [p \in RaceProducts |->
                      [exists |-> TRUE, price |-> 100, stock |-> 1,
                       status |-> "active", userId |-> "s1"]]
    /\ now = 0
    /\ resp = NoResp
    /\ reqs = [r \in Requests |-> Idle]
    /\ accounts = InitAccounts

(* The two requests in flight at a time. *)
Racers == {1, 2}

NextRace ==
    \/ \E r \in Racers, u \in Users, p \in RaceProducts :
            StartAddToCart(r, u, p, One, <<>>)
    \/ \E r \in Racers : AwaitFindOne(r)
    \/ \E r \in Racers : AwaitCreate(r)
    \/ \E r \in Racers : AwaitSave(r)
    \/ \E r \in Racers : AwaitFindById(r)

SpecRace == InitRace /\ [][NextRace]_vars

(* A caller of cart.markAsAbandoned() loads the cart first. *)
StartMarkAsAbandoned(r, cartId) ==
    /\ reqs[r].pc = "idle"
    /\ \E cart \in carts :
        /\ cart.id = cartId
        /\ reqs' = Hold(r, "cart.markAsAbandoned", cart.user, "markAsAbandoned", NoData, cart)
    /\ UNCHANGED <<accounts, carts, products, now, resp>>

(* cart.markAsAbandoned() on the document the caller holds.  Its tests     *)
(* read the document in memory; its save() sends status, abandonedAt and   *)
(* the lastActivity of pre('save').  The summary pre('save') recomputes    *)
(* from the held lines is sent or not, as the library finds it changed.    *)
AwaitMarkAsAbandoned(r) ==
    LET held == reqs[r].cart
        result == markAsAbandoned(held, now)
        stored == Reload(carts, held.id)
    IN
    /\ reqs[r].pc = "markAsAbandoned"
    /\ IF result.ok /\ result.doc # held
       THEN \E summary \in {stored.summary, result.doc.summary} :
                carts' = Write(carts, [stored EXCEPT !.status = result.doc.status,
                                                     !.abandonedAt = result.doc.abandonedAt,
                                                     !.lastActivity = result.doc.lastActivity,
                                                     !.summary = summary])
       ELSE UNCHANGED carts
    /\ resp' = Response("cart.markAsAbandoned", reqs[r].user,
                        IF result.ok THEN 200 ELSE 500, result.error, NoData)
    /\ reqs' = Done(r)
    /\ UNCHANGED <<accounts, products, now>>

NextAbandonRace ==
    \/ \E u \in Users, p \in Products : AddToCart(u, p, One, <<>>)
    \/ \E u \in Users, a \in AddressInputs :
            UpdateShippingAddress(u, [address |-> a])
    \/ \E r \in Requests, id \in CartIds : StartMarkAsAbandoned(r, id)
    \/ \E r \in Requests : AwaitMarkAsAbandoned(r)
    \/ Tick

SpecAbandonRace == Init /\ [][NextAbandonRace]_vars

----------------------------------------------------------------------------
(* Login and the account lock (models/User.js, routes/auth.js) *)

(* bcrypt.compare(candidatePassword, this.password) *)
comparePassword(user, candidatePassword) == Hash(candidatePassword) = user.password

isLocked(user, t) == user.lockUntil # NoDate /\ user.lockUntil > t

(* incrementLoginAttempts without the reset after an expired lock *)
incrementLoginAttemptsNoReset(user, t) ==
    LET attempts == user.loginAttempts + 1 IN
    [user EXCEPT !.loginAttempts = attempts,
                 !.lockUntil = IF attempts >= MaxLoginAttempts THEN t + LockHours ELSE @]

incrementLoginAttempts(user, t) ==
    IF user.lockUntil # NoDate /\ user.lockUntil < t
    THEN [user EXCEPT !.loginAttempts = 1, !.lockUntil = NoDate]
    ELSE LET attempts == user.loginAttempts + 1 IN
         [user EXCEPT !.loginAttempts = attempts,
                      !.lockUntil = IF attempts >= MaxLoginAttempts
                                    THEN t + LockHours ELSE @]

(* router.post('/login').  The reset of a successful login is an update of *)
(* the stored document; the save() that follows sends lastLogin only.      *)
Login(email, password) ==
    /\ IF password = ""
       THEN /\ resp' = Response("login", email, 400, "Password is required", NoData)
            /\ UNCHANGED accounts
       ELSE IF email \notin DOMAIN accounts
       THEN /\ resp' = Response("login", email, 401, "Invalid credentials", NoData)
            /\ UNCHANGED accounts
       ELSE LET user == accounts[email] IN
            IF isLocked(user, now)
            THEN /\ resp' = Response("login", email, 423,
                                     "Account is temporarily locked. Try again later.", NoData)
                 /\ UNCHANGED accounts
            ELSE IF ~comparePassword(user, password)
            THEN /\ accounts' = [accounts EXCEPT ![email] = incrementLoginAttempts(user, now)]
                 /\ resp' = Response("login", email, 401, "Invalid credentials", NoData)
            ELSE /\ accounts' = [accounts EXCEPT ![email] =
                                    [user EXCEPT !.loginAttempts = 0, !.lockUntil = NoDate,
                                                 !.lastLogin = now]]
                 /\ resp' = Response("login", email, 200, "Login successful", NoData)
    /\ UNCHANGED <<carts, products, now, reqs>>

(* An hour passes. *)
TickHour ==
    /\ now < MaxHours
    /\ now' = now + 1
    /\ resp' = NoResp
    /\ UNCHANGED <<carts, products, reqs, accounts>>

EmailInputs == Emails \cup {"nobody@tsa.io"}
PasswordInputs == {"", "secret1234", "guess"}

NextLogin ==
    \/ \E e \in EmailInputs, p \in PasswordInputs : Login(e, p)
    \/ TickHour

SpecLogin == Init /\ [][NextLogin]_vars

---------------------------------------------------------------------------
(* Properties *)

Lines(c) == 1..Len(c.items)

RECURSIVE SumOver(_, _, _)
SumOver(F(_), items, n) ==
    IF n = 0 THEN 0 ELSE F(items[n]) + SumOver(F, items, n - 1)

LinePrice(it) == it.price * it.quantity
LineQuantity(it) == it.quantity

(* C1: after any sequence of cart operations every persisted summary has   *)
(* total = max(0, subtotal + shipping + tax - discount), subtotal = sum of *)
(* price * quantity over the line items, totalItems = number of line items *)
(* and totalQuantity = sum of the quantities.                              *)
C1_SummaryConsistency ==
    \A c \in carts :
        LET sm == c.summary
            raw == sm.subtotal + sm.shipping + sm.tax - sm.discount
        IN  /\ sm.total = (IF raw < 0 THEN 0 ELSE raw)
            /\ sm.subtotal = SumOver(LinePrice, c.items, Len(c.items))
            /\ sm.totalItems = Len(c.items)
            /\ sm.totalQuantity = SumOver(LineQuantity, c.items, Len(c.items))

(* A cart whose stale discount exceeds what is left after its items were   *)
(* removed: the total is held at 0.                                        *)
C1_Witness ==
    /\ resp.code = 200
    /\ \E c \in carts :
        /\ c.summary.subtotal + c.summary.shipping + c.summary.tax - c.summary.discount < 0
        /\ c.summary.total = 0

(* C2: for a non-empty cart with shipping method express, once applyCoupon *)
(* with a free_shipping coupon has completed and the cart is saved, the    *)
(* persisted summary has shipping = 0 and discount = 12.                   *)
C2_FreeShippingDiscount ==
    (resp.op = "cart.applyCoupon" /\ resp.code = 200) =>
        \A c \in carts :
            (/\ c.user = resp.user
             /\ c.status = "active"
             /\ c.appliedCoupon.code # ""
             /\ c.appliedCoupon.discountType = "free_shipping"
             /\ c.shippingMethod = "express"
             /\ c.items # <<>>)
            => (c.summary.shipping = 0 /\ c.summary.discount = 12)

(* C3: after any sequence of add-item requests against a product of fixed  *)
(* stock, no line item's quantity exceeds that stock (an add whose merged  *)
(* quantity would exceed the stock fails and leaves the line as it was).   *)
C3_LineWithinStock ==
    \A c \in carts : \A i \in Lines(c) :
        c.items[i].quantity <= products[c.items[i].product].stock

(* The name/value pairs of a line item's attributes. *)
AttributePairs(it) ==
    [k \in 1..Len(it.selectedAttributes) |->
        <<it.selectedAttributes[k].name, it.selectedAttributes[k].value>>]

(* C4: no two line items of a cart share the same product and the same    *)
(* selected attributes: addItem for a pair already in the cart adds to its *)
(* line item instead of appending another.                                 *)
C4_NoDuplicateLines ==
    \A c \in carts : \A i, j \in Lines(c) :
        (/\ c.items[i].product = c.items[j].product
         /\ AttributePairs(c.items[i]) = AttributePairs(c.items[j]))
        => i = j

(* C5: in every persisted state every line item of every cart has          *)
(* quantity >= 1, whatever add-item and update-quantity requests, also     *)
(* with zero or negative quantities, have been issued.                     *)
C5_QuantityFloor ==
    \A c \in carts : \A i \in Lines(c) : c.items[i].quantity >= 1

(* An add-item request with a negative quantity has just been refused by   *)
(* the validator while the cart holds a line item.                         *)
C5_Witness ==
    /\ resp.op = "addToCart"
    /\ resp.code = 500
    /\ resp.message = "Quantity must be at least 1"
    /\ \E c \in carts : c.user = resp.user /\ c.items # <<>>

HasItem(store, u, itemId) ==
    \E c \in store : c.user = u /\ c.status = "active" /\ findIndex(c, itemId) # {}

(* The active cart of u holds in store2 the line items it held in store1   *)
(* without the one that itemId named.                                      *)
ItemRemoved(store1, store2, u, itemId) ==
    \A c \in findOneActive(store1, u) :
        \E d \in store2 : d.id = c.id /\ d.items = RemoveAt(c.items, itemId)

(* C6: an update-item-quantity request for an existing line item with      *)
(* quantity 0 or a negative number succeeds and removes that line item.    *)
C6_UpdateBelowOneRemoves ==
    [][\A u \in Users, i \in ItemIdInputs, q \in QtyInputs :
        (/\ q < 1
         /\ HasItem(carts, u, i)
         /\ UpdateCartItem(u, i, [n |-> q, str |-> FALSE]))
        => (resp'.code = 200 /\ ItemRemoved(carts, carts', u, i))]_vars

(* C7: after a successful convertToOrder the persisted cart has status     *)
(* converted, convertedAt set, no items, no applied coupon and a summary   *)
(* with subtotal, tax, discount and total equal to 0.                      *)
C7_ConversionResets ==
    (resp.op = "convertToOrder" /\ resp.code = 200) =>
        \A c \in carts :
            c.id = resp.data.cartId =>
                /\ c.status = "converted"
                /\ c.convertedAt # NoDate
                /\ c.items = <<>>
                /\ c.appliedCoupon.code = ""
                /\ c.summary.subtotal = 0
                /\ c.summary.tax = 0
                /\ c.summary.discount = 0
                /\ c.summary.total = 0

(* C8: the data a successful checkout returns holds the line items and the *)
(* summary of the cart as they were immediately before the conversion,     *)
(* with the addresses and the shipping and payment methods.                *)
C8_CheckoutReturnsSnapshot ==
    [][\A u \in Users :
        (ConvertToOrder(u) /\ resp'.code = 200) =>
            \E c \in findOneActive(carts, u) :
                /\ resp'.data.items = c.items
                /\ resp'.data.items # <<>>
                /\ resp'.data.summary.total = c.summary.total
                /\ resp'.data.shippingAddress = c.shippingAddress
                /\ resp'.data.shippingMethod = c.shippingMethod
                /\ resp'.data.paymentMethod = c.paymentMethod]_vars

(* The preconditions of checkout, for user u in the current state. *)
CheckoutAllowed(u) ==
    \E c \in carts :
        /\ c.user = u
        /\ c.status = "active"
        /\ Len(c.items) > 0
        /\ c.shippingAddress.address # ""
        /\ c.paymentMethod # ""
        /\ \A i \in Lines(c) :
            /\ products[c.items[i].product].exists
            /\ products[c.items[i].product].stock >= c.items[i].quantity

(* Some cart becomes converted in this step. *)
Converts ==
    \E d \in carts' :
        /\ d.status = "converted"
        /\ \A c \in carts : c.id = d.id => c.status # "converted"

(* C9: checkout converts the cart only when it is non-empty, has a         *)
(* shipping address, has a payment method and every line item's product    *)
(* exists with stock >= the item's quantity; otherwise checkout reports a  *)
(* failure and the persisted carts are unchanged.                          *)
C9_CheckoutPreconditions ==
    [][/\ Converts => \E u \in Users : CheckoutAllowed(u)
       /\ \A u \in Users :
            (ConvertToOrder(u) /\ ~CheckoutAllowed(u))
            => (resp'.code \in {400, 404} /\ carts' = carts)]_vars

(* A checkout has just been refused for lack of stock, or because the      *)
(* product is gone, and the cart is still active with its items.           *)
C9_Witness ==
    /\ resp.op = "convertToOrder"
    /\ resp.code = 400
    /\ resp.message = "Product is no longer available"
    /\ \E c \in carts :
        /\ c.user = resp.user
        /\ c.status = "active"
        /\ c.items # <<>>
        /\ c.shippingAddress.address # ""

(* C10: in every reachable state get-or-create for a user succeeds and     *)
(* returns an active cart of that user.                                    *)
C10_GetOrCreateSucceeds ==
    resp.op = "getOrCreateCart" =>
        /\ resp.code = 200
        /\ resp.data.user = resp.user
        /\ resp.data.status = "active"

UserCarts(u) == {c \in carts : c.user = u}

(* C11: under any interleaving of concurrent get-or-create and add-item    *)
(* requests of one user, at most one cart document of that user exists at  *)
(* any time.                                                               *)
C11_OneCartPerUser ==
    \A u \in Users : Cardinality(UserCarts(u)) <= 1

(* Two requests raced for the creation: one created the cart, the insert   *)
(* of the other has just been refused by the unique index while the first  *)
(* is still in flight.                                                     *)
C11_Witness ==
    /\ resp.code = 500
    /\ resp.message = "E11000 duplicate key error"
    /\ Cardinality(UserCarts(resp.user)) = 1
    /\ \E r \in Requests : reqs[r].user = resp.user /\ reqs[r].pc \in {"save", "findById"}

(* C12: once a cart's status is converted, no step changes it to another   *)
(* value.                                                                  *)
C12_ConvertedIsFinal ==
    [][\A c \in carts : \A d \in carts' :
        (c.status = "converted" /\ d.id = c.id) => d.status = "converted"]_vars

(* restore() or markAsAbandoned() has just been called on a converted      *)
(* cart, a day after its conversion.                                       *)
C12_Witness ==
    /\ resp.op \in {"cart.restore", "cart.markAsAbandoned"}
    /\ resp.code = 200
    /\ \E c \in carts :
        /\ c.user = resp.user
        /\ c.status = "converted"
        /\ now - c.convertedAt > AbandonHours

(* The cart of that id in the store. *)
CartOf(store, id) == CHOOSE c \in store : c.id = id

Restorable(u, id) == \E c \in carts : c.id = id /\ c.user = u /\ c.status = "abandoned"

(* C13: restore changes a cart only when its status is abandoned, and then *)
(* sets status to active, clears abandonedAt and sets lastActivity to the  *)
(* current time; on a cart of any other status it leaves status,           *)
(* abandonedAt and items as they were; a restore request for a cart that   *)
(* is not the caller's abandoned cart is answered 404 and changes nothing. *)
C13_RestoreOnlyFromAbandoned ==
    [][/\ \A id \in LifecycleCartIds :
            CallRestore(id) =>
                \A c \in carts : c.id = id =>
                    /\ \E d \in carts' : d.id = id
                    /\ LET d == CartOf(carts', id) IN
                       IF c.status = "abandoned"
                       THEN d.status = "active" /\ d.abandonedAt = NoDate
                            /\ d.lastActivity = now
                       ELSE d.status = c.status /\ d.abandonedAt = c.abandonedAt
                            /\ d.items = c.items
       /\ \A u \in LifecycleUsers, id \in LifecycleCartIds :
            RestoreCart(u, id) =>
                IF Restorable(u, id)
                THEN /\ resp'.code = 200
                     /\ LET d == CartOf(carts', id) IN
                        d.status = "active" /\ d.abandonedAt = NoDate
                        /\ d.lastActivity = now
                ELSE resp'.code = 404 /\ carts' = carts
       /\ \A c \in carts : \A st \in {"active", "converted", "expired"} :
            restore([c EXCEPT !.status = st], now).doc = [c EXCEPT !.status = st]]_vars

(* An abandoned cart has just been restored by its owner's request. *)
C13_Witness ==
    /\ resp.op = "restoreCart"
    /\ resp.code = 200
    /\ now > AbandonHours
    /\ \E c \in carts :
        /\ c.user = resp.user
        /\ c.status = "active"
        /\ c.abandonedAt = NoDate
        /\ c.lastActivity = now
        /\ c.items # <<>>

(* The condition under which a cart is due for abandonment at time t. *)
Due(c, t) == c.status = "active" /\ c.items # <<>> /\ t - c.lastActivity > AbandonHours

(* C14: markAsAbandoned sets status abandoned and abandonedAt exactly when *)
(* the cart is active, has a line item and its lastActivity is more than   *)
(* 24 hours old; in every other case the cart is unchanged; applying it    *)
(* twice gives the cart that applying it once gives.                       *)
C14_MarkAsAbandoned ==
    [][/\ \A id \in LifecycleCartIds :
            CallMarkAsAbandoned(id) =>
                \A c \in carts : c.id = id =>
                    /\ \E d \in carts' : d.id = id
                    /\ LET d == CartOf(carts', id) IN
                       IF Due(c, now)
                       THEN d.status = "abandoned" /\ d.abandonedAt = now
                       ELSE d = c
       /\ \A c \in carts : \A age \in {AbandonHours - 1, AbandonHours, AbandonHours + 1} :
            LET old == [c EXCEPT !.lastActivity = now - age]
                once == markAsAbandoned(old, now).doc
                twice == markAsAbandoned(once, now).doc
            IN  /\ twice = once
                /\ (once.status = "abandoned" /\ once.abandonedAt = now)
                        <=> (Due(old, now) \/ (old.status = "abandoned" /\ old.abandonedAt = now))
                /\ ~Due(old, now) => once = old]_vars

(* A cart with items, idle for more than a day, has just been marked       *)
(* abandoned.                                                              *)
C14_Witness ==
    /\ resp.op = "cart.markAsAbandoned"
    /\ resp.code = 200
    /\ \E c \in carts :
        /\ c.status = "abandoned"
        /\ c.abandonedAt = now
        /\ c.items # <<>>

(* C15: cleanupExpiredCarts deletes exactly the carts whose expiresAt is   *)
(* in the past and whose status is not converted and returns their count;  *)
(* it deletes no converted cart and no cart whose expiresAt is not past.   *)
C15_CleanupDeletesExpired ==
    [][\A role \in {"admin", "super_admin"} :
        CleanupExpiredCarts(role) =>
            /\ \A c \in carts :
                    c \notin carts' <=> (c.expiresAt < now /\ c.status # "converted")
            /\ carts' \subseteq carts
            /\ resp'.data.deletedCount = Cardinality(carts \ carts')]_vars

(* A cleanup has just deleted an expired cart and spared a converted cart  *)
(* whose expiresAt is past as well.                                        *)
C15_Witness ==
    /\ resp.op = "cleanupExpiredCarts"
    /\ resp.code = 200
    /\ resp.data.deletedCount = 1
    /\ \E c \in carts : c.status = "converted" /\ c.expiresAt < now

ActiveCart(u) == CHOOSE c \in carts : c.user = u /\ c.status = "active"

(* The coupon a cart holds is the one the call gave, applied at time t. *)
HoldsCoupon(c, couponCode, couponData, t) ==
    c.appliedCoupon =
        [code |-> couponCode,
         discountType |-> couponData.discountType,
         discountValue |-> couponData.discountValue,
         maxDiscount |-> couponData.maxDiscount,
         minPurchase |-> couponData.minPurchase,
         expiresAt |-> couponData.expiresAt,
         appliedAt |-> t]

(* C16: applyCoupon is rejected when the coupon's expiresAt is in the past *)
(* or the cart's subtotal is below its minPurchase, and then leaves the    *)
(* applied coupon and the summary as they were; otherwise the given coupon *)
(* replaces the one the cart held.                                         *)
C16_ApplyCouponEligibility ==
    [][/\ \A u \in Users, code \in CouponCodes, couponData \in CouponInputs :
            CallApplyCouponWith(u, code, couponData) =>
                LET c == ActiveCart(u)
                    d == CartOf(carts', c.id)
                    subtotal == SumOver(LinePrice, c.items, Len(c.items))
                    expired == couponData.expiresAt # 0 /\ couponData.expiresAt < now
                IN  IF expired \/ subtotal < couponData.minPurchase
                    THEN /\ resp'.code = 500
                         /\ d.appliedCoupon = c.appliedCoupon
                         /\ d.summary = c.summary
                    ELSE /\ resp'.code = 200
                         /\ HoldsCoupon(d, code, couponData, now)
       /\ \A u \in Users, code \in CouponCodes :
            (ApplyCoupon(u, code) /\ findOneActive(carts, u) # {}) =>
                LET c == ActiveCart(u)
                    d == CartOf(carts', c.id)
                    subtotal == SumOver(LinePrice, c.items, Len(c.items))
                IN  IF subtotal < MockCoupon(now).minPurchase
                    THEN /\ resp'.code = 400
                         /\ d.appliedCoupon = c.appliedCoupon
                         /\ d.summary = c.summary
                    ELSE /\ resp'.code = 200
                         /\ HoldsCoupon(d, code, MockCoupon(now), now)]_vars

(* An expired coupon has just been refused for a cart that holds a coupon  *)
(* applied a day earlier, which it keeps.                                  *)
C16_Witness ==
    /\ resp.op = "cart.applyCoupon"
    /\ resp.code = 500
    /\ resp.message = "Coupon has expired"
    /\ \E c \in carts :
        /\ c.user = resp.user
        /\ c.appliedCoupon.code # ""
        /\ c.appliedCoupon.appliedAt < now

(* C17: with a coupon applied, the persisted discount is                   *)
(* min(subtotal * discountValue / 100, maxDiscount) for a percentage       *)
(* coupon with a cap, subtotal * discountValue / 100 for one without, and  *)
(* min(discountValue, subtotal) for a fixed coupon, where a discountValue  *)
(* above the subtotal gives discount = subtotal and total = shipping + tax.*)
C17_DiscountAmount ==
    \A c \in carts :
        LET k == c.appliedCoupon
            subtotal == SumOver(LinePrice, c.items, Len(c.items))
            pct == (subtotal * k.discountValue) \div 100
        IN  k.code # "" =>
            /\ (k.discountType = "percentage" /\ k.maxDiscount # 0) =>
                    c.summary.discount = (IF pct < k.maxDiscount THEN pct ELSE k.maxDiscount)
            /\ (k.discountType = "percentage" /\ k.maxDiscount = 0) =>
                    c.summary.discount = pct
            /\ k.discountType = "fixed" =>
                    /\ c.summary.discount =
                            (IF k.discountValue < subtotal THEN k.discountValue ELSE subtotal)
                    /\ k.discountValue > subtotal =>
                            /\ c.summary.discount = subtotal
                            /\ c.summary.total = c.summary.shipping + c.summary.tax

(* The 50% coupon capped at 20 on a subtotal of 100: the discount is 20. *)
C17_Witness ==
    \E c \in carts :
        /\ c.appliedCoupon.code # ""
        /\ c.appliedCoupon.discountType = "percentage"
        /\ c.appliedCoupon.discountValue = 50
        /\ c.appliedCoupon.maxDiscount = 20
        /\ c.summary.subtotal = 100
        /\ c.summary.discount = 20

(* C18: after a successful clearCart the persisted cart has no line items  *)
(* and every summary field is 0, while the shipping address, the shipping  *)
(* method and the payment method are as they were.                         *)
C18_ClearCartZeroes ==
    [][\A u \in Users :
        (ClearCart(u) /\ resp'.code = 200) =>
            LET c == ActiveCart(u)
                d == CartOf(carts', c.id)
            IN  /\ d.items = <<>>
                /\ d.summary = ZeroSummary
                /\ d.shippingAddress = c.shippingAddress
                /\ d.shippingMethod = c.shippingMethod
                /\ d.paymentMethod = c.paymentMethod]_vars

(* A step is a cart mutation request of user u. *)
MutationRequest(u) ==
    \/ \E p \in Products, q \in QuantityInputs, a \in AttrInputs : AddToCart(u, p, q, a)
    \/ \E i \in ItemIdInputs, q \in QuantityInputs : UpdateCartItem(u, i, q)
    \/ \E i \in ItemIdInputs : RemoveFromCart(u, i)
    \/ ClearCart(u)
    \/ \E code \in CouponCodes : ApplyCoupon(u, code)
    \/ RemoveCoupon(u)
    \/ \E a \in AddressInputs : UpdateShippingAddress(u, [address |-> a])
    \/ \E m \in ShippingMethods : UpdateShippingMethod(u, m)
    \/ \E m \in PaymentMethods : UpdatePaymentMethod(u, m)

(* C19: every cart mutation request either succeeds, and the cart is       *)
(* persisted with the summary of its line items, or fails and leaves the   *)
(* persisted carts exactly as they were.                                   *)
C19_AllOrNothing ==
    [][\A u \in Users :
        MutationRequest(u) =>
            IF resp'.code = 200
            THEN \A d \in carts' :
                    /\ d.summary.subtotal = SumOver(LinePrice, d.items, Len(d.items))
                    /\ d.summary.totalItems = Len(d.items)
            ELSE carts' = carts]_vars

(* C20: an add-item request with a quantity below 1, made by a user who   *)
(* has a cart, is refused and leaves the cart as it was: no line item's    *)
(* quantity is lowered.                                                    *)
C20_AddBelowOneRefused ==
    [][\A u \in Users, p \in Products, q \in QtyInputs, a \in AttrInputs :
        (/\ q < 1
         /\ findOneActive(carts, u) # {}
         /\ AddToCart(u, p, [n |-> q, str |-> FALSE], a))
        => (resp'.code # 200 /\ carts' = carts)]_vars

(* The user's cart has been checked out and the user has no other cart. *)
CheckedOut(u) ==
    /\ \E c \in carts : c.user = u /\ c.status = "converted"
    /\ findOneActive(carts, u) = {}

(* C21: a checkout request made after a successful checkout of the same    *)
(* user's cart fails with the empty-cart error and leaves the converted    *)
(* cart as it is.                                                          *)
C21_SecondCheckoutEmptyCart ==
    [][\A u \in Users :
        (CheckedOut(u) /\ ConvertToOrder(u)) =>
            /\ resp'.code = 400
            /\ resp'.message = "Cannot convert empty cart to order"
            /\ carts' = carts]_vars

(* C22: a cart without an applied coupon has a summary discount of 0; in   *)
(* particular the summary persisted by removeCoupon is the coupon-free     *)
(* one, with total = subtotal + shipping + tax.                            *)
C22_NoCouponNoDiscount ==
    \A c \in carts :
        c.appliedCoupon.code = "" =>
            /\ c.summary.discount = 0
            /\ c.summary.total = c.summary.subtotal + c.summary.shipping + c.summary.tax

(* C23: a cart with no free_shipping coupon applied has as summary         *)
(* shipping the table cost of its current shipping method, from creation   *)
(* on and after a free_shipping coupon was removed.                        *)
C23_ShippingIsTableCost ==
    \A c \in carts :
        c.appliedCoupon.discountType # "free_shipping" =>
            c.summary.shipping = shippingCosts(c.shippingMethod)

(* C24: a save of a cart that is active and has a line item sets expiresAt *)
(* to the time of the save plus 30 days; a save of an empty cart or of a   *)
(* cart that is not active leaves expiresAt as it was.                     *)
C24_ExpiresAtRefresh ==
    [][\A c \in carts : \A d \in carts' :
        (d.id = c.id /\ d # c) =>
            IF d.status = "active" /\ ~isEmpty(d)
            THEN d.expiresAt = now + ExpireHours
            ELSE d.expiresAt = c.expiresAt]_vars

C24_Witness ==
    \E c \in carts :
        /\ c.status = "active" /\ ~isEmpty(c)
        /\ now > 0 /\ c.lastActivity = now
        /\ c.expiresAt = now + ExpireHours
        /\ resp.op = "updateShippingAddress" /\ resp.code = 200

(* The document request r holds in memory once addItem has changed it. *)
InMemory(r) == addItem(reqs[r].cart, reqs[r].args, now).doc

(* Request r has its save acknowledged in this step. *)
Saves(r) == AwaitSave(r) /\ reqs'[r].pc = "findById"

C26_AbandonRechecksLastActivity ==
    [][\A c \in carts : \A d \in carts' :
        (d.id = c.id /\ c.status = "active" /\ d.status = "abandoned") =>
            now - c.lastActivity > AbandonHours]_vars

(* What the catalog says against line i of cart c. *)
CatalogIssues(c, i) ==
    LET product == products[c.items[i].product] IN
    (IF product.stock < c.items[i].quantity THEN {"insufficient_stock"} ELSE {})
    \cup (IF product.status # "active" THEN {"product_inactive"} ELSE {})
    \cup (IF product.price # c.items[i].price THEN {"price_changed"} ELSE {})

(* C27: the validate-cart request answers valid exactly when every line's  *)
(* product has the stock for the line, is active and has the price the     *)
(* line captured; otherwise it lists one issue for every failing line and  *)
(* reason; it does not change the cart.                                    *)
C27_ValidateCartMirrorsCatalog ==
    [][\A u \in Users :
        (ValidateCart(u) /\ findOneActive(carts, u) # {}) =>
            LET c == CHOOSE x \in findOneActive(carts, u) : TRUE IN
            /\ carts' = carts
            /\ (\A i \in 1..Len(c.items) : products[c.items[i].product].exists) =>
                /\ resp'.data.valid <=> \A i \in 1..Len(c.items) : CatalogIssues(c, i) = {}
                /\ resp'.data.issues =
                        {e \in [item : 1..Len(c.items),
                                issue : {"insufficient_stock", "product_inactive",
                                         "price_changed"}] :
                            e.issue \in CatalogIssues(c, e.item)}]_vars

(* C28: the transition to abandoned changes status and abandonedAt only:   *)
(* lastActivity, items, summary and expiresAt stay, so that a cart         *)
(* abandoned after more than a day without activity is at once among       *)
(* findAbandonedCarts(1).                                                  *)
C28_AbandonKeepsLastActivity ==
    [][\A c \in carts : \A d \in carts' :
        (d.id = c.id /\ c.status = "active" /\ d.status = "abandoned") =>
            /\ d.lastActivity = c.lastActivity
            /\ d.items = c.items
            /\ d.summary = c.summary
            /\ d.expiresAt = c.expiresAt
            /\ d \in findAbandonedCarts(carts', 1, now)]_vars

(* C29: a cart whose billingAddress.sameAsShipping is true has the billing *)
(* address fields of its shipping address, after any sequence of shipping  *)
(* and billing address updates.                                            *)
C29_SameAsShippingMeansEqual ==
    \A c \in carts :
        c.billingAddress.sameAsShipping =>
            c.billingAddress.address = c.shippingAddress.address

(* C30: a login with a password on an account: while lockUntil is in the   *)
(* future it is rejected as locked and the account is unchanged, whatever  *)
(* the password; a wrong password after the lock has expired sets          *)
(* loginAttempts to 1 and clears lockUntil; any other wrong password adds  *)
(* 1 to loginAttempts and, when that gives 5, sets lockUntil two hours     *)
(* ahead; the correct password sets loginAttempts to 0.                    *)
C30_LoginLock ==
    [][\A e \in Emails : \A p \in PasswordInputs \ {""} :
        Login(e, p) =>
            LET u == accounts[e]
                v == accounts'[e]
            IN  IF u.lockUntil # NoDate /\ u.lockUntil > now
                THEN resp'.code = 423 /\ v = u
                ELSE IF Hash(p) = u.password
                THEN resp'.code = 200 /\ v.loginAttempts = 0
                ELSE /\ resp'.code = 401
                     /\ (u.lockUntil # NoDate /\ u.lockUntil < now) =>
                            v.loginAttempts = 1 /\ v.lockUntil = NoDate
                     /\ u.lockUntil = NoDate =>
                            /\ v.loginAttempts = u.loginAttempts + 1
                            /\ v.loginAttempts = 5 => v.lockUntil = now + LockHours
                            /\ v.loginAttempts < 5 => v.lockUntil = NoDate]_vars

(* The account was locked by five wrong passwords and a login is refused. *)
C30_Witness ==
    \E e \in Emails :
        /\ accounts[e].loginAttempts = 5
        /\ accounts[e].lockUntil > now
        /\ resp.op = "login" /\ resp.code = 423

====
